---- MODULE Spec2Model ----
(***************************************************************************)
(* Model of the document preview pipeline of js/optimized-parsing.js (the  *)
(* page side: parseLargeFile, createParserWorker, parseXlsxInChunks and    *)
(* the DOM helpers) and js/parser.worker.js (the worker side: onmessage,   *)
(* parseXlsx, parsePptx, escapeHtml).                                      *)
(*                                                                         *)
(* Strings are sequences of tokens.  Markup written by the code is one     *)
(* token per literal piece ("<h4>", "worksheet-container", ...); text that *)
(* comes from the document is one token per character, so a raw "<" in the *)
(* output can only be a character of document text.  The Chinese literals  *)
(* of the source are written as ASCII glosses:                             *)
(*   "ParseFailed: "          for the literal meaning "parse failed: "     *)
(*   "UnsupportedParseType: " for the worker's unknown-type message        *)
(*   "UnsupportedDocType: "   for the page's unknown-type message          *)
(*   "UnknownParseError"      for the worker's default error text          *)
(* "Excel" ++ "ParseFailed: " is the prefix parseXlsx puts before a        *)
(* library message, "PowerPoint" ++ "ParseFailed: " the one of parsePptx,  *)
(* and "ParseFailed: " alone the one worker.onerror uses.                  *)
(***************************************************************************)
EXTENDS Integers, Sequences, FiniteSets, TLC

\* Largest number of worksheets / slides of a document.
MaxUnits == 2
\* Largest number of text runs of a slide.
MaxRuns == 1

VARIABLES
    doc,        \* the document behind the ArrayBuffer and the docType argument
    env,        \* the platform: "worker", "noWorker" or "ctorThrows"
    hpc,        \* where parseLargeFile is: "idle", "waiting", "fb_idle", "fb_parse", "fb_pidle", "done"
    fi,         \* fallback parser: loop index i
    fhtml,      \* fallback parser: htmlContent
    preview,    \* the #document-preview element
    buffer,     \* who can read the ArrayBuffer: "host" or "worker"
    wpc,        \* worker: "none", "loading", "ready", "sleep", "parsing", "idle", "failed", "terminated"
    wi,         \* worker parseXlsx: loop index i
    whtml,      \* worker: htmlContent
    toWorker,   \* messages posted to the worker, not yet handled
    inbox,      \* messages posted by the worker, not yet handled by worker.onmessage
    errPending, \* error events of the worker, not yet handled by worker.onerror
    events,     \* history: the calls of updateProgressIndicator / renderParsedContent / handleParsingError
    emitted,    \* history: the progress values the executor emitted
    sched,      \* history: the fallback's suspension points and sub-unit conversions
    view,       \* what renderParsedContent built: the page shown, the scroller, the slice, its images
    doc2,       \* a second request, made while the first is in flight: its document
    hpc2,       \* second request: "idle" or "waiting"
    wpc2,       \* second request: its worker, as wpc
    wi2,        \* second request: its worker's loop index
    whtml2,     \* second request: its worker's htmlContent
    toWorker2,  \* second request: messages posted to its worker
    inbox2,     \* second request: messages posted by its worker
    errPending2, \* second request: error events of its worker
    last2,      \* history: the preview as the second request last left it
    clobbered   \* history: a message of the second request changed a preview the first had written

vars == <<doc, env, hpc, fi, fhtml, preview, buffer, wpc, wi, whtml, toWorker,
          inbox, errPending, events, emitted, sched, view, doc2, hpc2, wpc2, wi2,
          whtml2, toWorker2, inbox2, errPending2, last2, clobbered>>

\* What the actions of the first request leave alone.
uiVars == <<view, doc2, hpc2, wpc2, wi2, whtml2, toWorker2, inbox2, errPending2,
            last2, clobbered>>

hostVars == <<hpc, fi, fhtml, preview, buffer, events, sched>>
workerVars == <<wpc, wi, whtml>>

----------------------------------------------------------------------------
(* Inputs *)

\* Text found in documents: worksheet names and text run contents.
Texts == {<<"A">>, <<"a", "&", "b">>, <<"<", "b", ">", "\"", "'">>}

\* A text run of a slide: level and content; bad marks a content that is
\* truthy and not a string, on which escapeHtml's .replace throws.
RunCatalog ==
    { [level |-> 0, content |-> <<"<", "b", ">", "\"", "'">>, bad |-> FALSE],
      [level |-> 1, content |-> <<"a", "&", "b">>, bad |-> FALSE],
      [level |-> 2, content |-> <<"A">>, bad |-> FALSE],
      [level |-> 0, content |-> <<>>, bad |-> TRUE] }

SeqsUpTo(S, n) == UNION { [1..k -> S] : k \in 0..n }

\* slide.text: absent (present = FALSE) or a list of runs.
SlideSet ==
    { [present |-> FALSE, text |-> <<>>] } \cup
    { [present |-> TRUE, text |-> t] : t \in SeqsUpTo(RunCatalog, MaxRuns) }

\* A worksheet: its name in workbook.SheetNames; ok = FALSE when converting
\* workbook.Sheets[name] throws.
SheetSet == [name : Texts, ok : BOOLEAN]

DistinctNames(ss) == \A i, j \in 1..Len(ss) : i # j => ss[i].name # ss[j].name

DocKinds == {"xlsx", "pptx", "docx"}

\* kind is the docType argument, readOk says whether the library reads the
\* container, units is what it reads: worksheets or slides.
DocSet ==
    { [kind |-> "xlsx", readOk |-> TRUE, units |-> u] :
        u \in { s \in SeqsUpTo(SheetSet, MaxUnits) : DistinctNames(s) } }
    \cup
    { [kind |-> "pptx", readOk |-> TRUE, units |-> u] :
        u \in SeqsUpTo(SlideSet, MaxUnits) }
    \cup
    { [kind |-> k, readOk |-> FALSE, units |-> <<>>] : k \in DocKinds }

\* Messages of the errors the parsing libraries throw.
LibMsgs == { <<"corrupt">>, <<"ParseFailed: ", "corrupt">> }

\* Messages of the ErrorEvent the browser reports for a failed worker.
CrashMsgs == { <<"NetworkError">>, <<"Excel", "ParseFailed: ", "corrupt">> }

----------------------------------------------------------------------------
(* parser.worker.js: escapeHtml *)

RECURSIVE ReplaceAll(_, _, _)
ReplaceAll(s, c, r) ==
    IF s = <<>> THEN <<>>
    ELSE (IF Head(s) = c THEN r ELSE <<Head(s)>>) \o ReplaceAll(Tail(s), c, r)

escapeHtml(unsafe) ==
    IF unsafe = <<>> THEN <<>>
    ELSE ReplaceAll(
           ReplaceAll(
             ReplaceAll(
               ReplaceAll(
                 ReplaceAll(unsafe, "&", <<"&", "a", "m", "p", ";">>),
                 "<", <<"&", "l", "t", ";">>),
               ">", <<"&", "g", "t", ";">>),
             "\"", <<"&", "q", "u", "o", "t", ";">>),
           "'", <<"&", "#", "0", "3", "9", ";">>)

----------------------------------------------------------------------------
(* Messages and host calls *)

ProgressMsg(p) == [type |-> "progress", progress |-> p, html |-> <<>>, error |-> <<>>]
ResultMsg(t, h) == [type |-> t, progress |-> 0, html |-> h, error |-> <<>>]
ErrorMsg(m) == [type |-> "error", progress |-> 0, html |-> <<>>, error |-> m]

\* One call of a DOM helper, with the handler it was made from.
ProgressCall(p, via) == [type |-> "progress", pct |-> p, body |-> <<>>, via |-> via]
ResultCall(h, via) == [type |-> "result", pct |-> 0, body |-> h, via |-> via]
ErrorCall(m, via) == [type |-> "error", pct |-> 0, body |-> m, via |-> via]

----------------------------------------------------------------------------
(* optimized-parsing.js: the DOM helpers, on the #document-preview element *)

\* parseLargeFile's first statement: the progress markup.
ProgressMarkup == [kind |-> "progress", width |-> 0, html |-> <<>>, message |-> <<>>]

\* Does nothing unless .progress-bar and .progress-text exist.
updateProgressIndicator(pv, percent) ==
    IF pv.kind = "progress" THEN [pv EXCEPT !.width = percent] ELSE pv

renderParsedContent(pv, html) ==
    [kind |-> "content", width |-> 0, html |-> html, message |-> <<>>]

handleParsingError(pv, message) ==
    [kind |-> "error", width |-> 0, html |-> <<>>, message |-> message]

ApplyCall(pv, c) ==
    CASE c.type = "progress" -> updateProgressIndicator(pv, c.pct)
      [] c.type = "result" -> renderParsedContent(pv, c.body)
      [] c.type = "error" -> handleParsingError(pv, c.body)

RECURSIVE ApplyCalls(_, _)
ApplyCalls(pv, calls) ==
    IF calls = <<>> THEN pv ELSE ApplyCalls(ApplyCall(pv, Head(calls)), Tail(calls))

----------------------------------------------------------------------------
(* The HTML both spreadsheet parsers build *)

\* Mutant: the per-worksheet progress counts down from 80.
SheetProgressReversed(i, totalSheets) == 80 - ((2 * i * 60 + totalSheets) \div (2 * totalSheets))

\* 20 + Math.round((i / totalSheets) * 60)
SheetProgress(i, totalSheets) == 20 + ((2 * i * 60 + totalSheets) \div (2 * totalSheets))

XlsxHeader(n) == <<"<div class=xlsx-content>", "<h3>", "Excel:", ToString(n), "sheets", "</h3>">>

\* The template literal appended for worksheet i (0-based); "<table>" is
\* what XLSX.utils.sheet_to_html returns.
SheetBlock(i, sheetName) ==
    <<"<div class=worksheet-container>", "<h4>", "Sheet", ToString(i + 1), ":">>
    \o sheetName
    \o <<"</h4>", "<div class=table-wrapper>", "<table>", "</div>", "</div>", "<hr>">>

----------------------------------------------------------------------------
(* parser.worker.js: parsePptx's HTML *)

PptxHeader(n) == <<"<div class=pptx-content>", "<h3>", "PowerPoint:", ToString(n), "slides", "</h3>">>

RunTag(level) == IF level = 0 THEN "h5" ELSE IF level = 1 THEN "h6" ELSE "p"

\* `<${tag} class="slide-text level-${text.level}">` and `</${tag}>`
RunOpen(tag, level) ==
    <<(CASE tag = "h5" -> "<h5" [] tag = "h6" -> "<h6" [] OTHER -> "<p"),
      " class=slide-text level-", ToString(level), "\">">>
RunClose(tag) == CASE tag = "h5" -> "</h5>" [] tag = "h6" -> "</h6>" [] OTHER -> "</p>"

RunHtml(run) ==
    RunOpen(RunTag(run.level), run.level)
    \o escapeHtml(run.content)
    \o <<RunClose(RunTag(run.level))>>

RECURSIVE RunsHtml(_)
RunsHtml(runs) ==
    IF runs = <<>> THEN <<>> ELSE RunHtml(Head(runs)) \o RunsHtml(Tail(runs))

\* Mutant: the test is slide.text alone, and an empty list is truthy.
SlideHtmlTruthy(slide, index) ==
    <<"<div class=slide slide-", ToString(index + 1), "\">", "<h4>", "Slide", ToString(index + 1), "</h4>">>
    \o (IF slide.present
        THEN <<"<div class=slide-content>">> \o RunsHtml(slide.text) \o <<"</div>">>
        ELSE <<"<p class=no-content>", "NoExtractableText", "</p>">>)
    \o <<"</div>", "<hr>">>

\* The outer forEach callback for the slide at index (0-based).
SlideHtml(slide, index) ==
    <<"<div class=slide slide-", ToString(index + 1), "\">", "<h4>", "Slide", ToString(index + 1), "</h4>">>
    \o (IF slide.present /\ Len(slide.text) > 0
        THEN <<"<div class=slide-content>">> \o RunsHtml(slide.text) \o <<"</div>">>
        ELSE <<"<p class=no-content>", "NoExtractableText", "</p>">>)
    \o <<"</div>", "<hr>">>

\* escapeHtml(text.content) throws for a content that is not a string.
SlideThrows(slide) == \E k \in 1..Len(slide.text) : slide.text[k].bad

RECURSIVE SlidesHtml(_, _)
SlidesHtml(slides, index) ==
    IF index >= Len(slides) THEN <<>>
    ELSE SlideHtml(slides[index + 1], index) \o SlidesHtml(slides, index + 1)

----------------------------------------------------------------------------
(* parser.worker.js: the worker *)

\* Mutant: the catch completes the progress bar before it reports the error.
onmessageCatchProgress100(message) ==
    <<ProgressMsg(100), ErrorMsg(IF message = <<>> THEN <<"UnknownParseError">> ELSE message)>>

\* Mutant: the catch swallows the error and posts nothing.
onmessageCatchSilent(message) == <<>>

\* The catch of self.onmessage: one 'error' message, error.message or the
\* default text.
onmessageCatch(message) ==
    <<ErrorMsg(IF message = <<>> THEN <<"UnknownParseError">> ELSE message)>>

\* The messages of the Errors parseXlsx and parsePptx rethrow.
XlsxFailure(message) == <<"Excel", "ParseFailed: ">> \o message
PptxFailure(message) == <<"PowerPoint", "ParseFailed: ">> \o message

\* The message of the TypeError of escapeHtml on a content without .replace.
TypeErrorMsg == <<"TypeError">>

\* Mutant: the result is posted before the progress 100.
parseXlsxFinishResultFirst(html) ==
    [pc |-> "idle", i |-> 0, html |-> html \o <<"</div>">>,
     out |-> <<ResultMsg("xlsx-result", html \o <<"</div>">>), ProgressMsg(100)>>]

\* parseXlsx after its loop: the closing tag, progress 100, the result.
parseXlsxFinish(html) ==
    [pc |-> "idle", i |-> 0, html |-> html \o <<"</div>">>,
     out |-> <<ProgressMsg(100), ResultMsg("xlsx-result", html \o <<"</div>">>)>>]

\* Mutant: the loop stops one worksheet early.
parseXlsxLoopSkipLast(i, html, sheets, m) ==
    LET totalSheets == Len(sheets) IN
    IF i + 1 < totalSheets
    THEN IF sheets[i + 1].ok
         THEN [pc |-> "sleep", i |-> i + 1,
               html |-> html \o SheetBlock(i, sheets[i + 1].name),
               out |-> <<ProgressMsg(SheetProgress(i, totalSheets))>>]
         ELSE [pc |-> "idle", i |-> i, html |-> html,
               out |-> <<ProgressMsg(SheetProgress(i, totalSheets))>>
                       \o onmessageCatch(XlsxFailure(m))]
    ELSE parseXlsxFinish(html)

\* parseXlsx from the loop test of iteration i to its next await (the 10 ms
\* timer), its end, or its throw; m is the message of a library error.
parseXlsxLoop(i, html, sheets, m) ==
    LET totalSheets == Len(sheets) IN
    IF i < totalSheets
    THEN IF sheets[i + 1].ok
         THEN [pc |-> "sleep", i |-> i + 1,
               html |-> html \o SheetBlock(i, sheets[i + 1].name),
               out |-> <<ProgressMsg(SheetProgress(i, totalSheets))>>]
         ELSE [pc |-> "idle", i |-> i, html |-> html,
               out |-> <<ProgressMsg(SheetProgress(i, totalSheets))>>
                       \o onmessageCatch(XlsxFailure(m))]
    ELSE parseXlsxFinish(html)

\* Mutant: a workbook without worksheets is rejected.
parseXlsxRejectEmpty(d, m) ==
    IF ~d.readOk \/ Len(d.units) = 0
    THEN [pc |-> "idle", i |-> 0, html |-> <<>>,
          out |-> <<ProgressMsg(10)>> \o onmessageCatch(XlsxFailure(m))]
    ELSE LET r == parseXlsxLoop(0, XlsxHeader(Len(d.units)), d.units, m)
         IN [r EXCEPT !.out = <<ProgressMsg(10), ProgressMsg(20)>> \o r.out]

\* parseXlsx from its first statement.
parseXlsx(d, m) ==
    IF ~d.readOk
    THEN [pc |-> "idle", i |-> 0, html |-> <<>>,
          out |-> <<ProgressMsg(10)>> \o onmessageCatch(XlsxFailure(m))]
    ELSE LET r == parseXlsxLoop(0, XlsxHeader(Len(d.units)), d.units, m)
         IN [r EXCEPT !.out = <<ProgressMsg(10), ProgressMsg(20)>> \o r.out]

\* parsePptx up to its await of PptxParser.parse.
parsePptx(d) ==
    [pc |-> "parsing", i |-> 0, html |-> <<>>,
     out |-> <<ProgressMsg(10), ProgressMsg(30)>>]

\* parsePptx after PptxParser.parse settled.
parsePptxParsed(d, m) ==
    IF ~d.readOk
    THEN [pc |-> "idle", i |-> 0, html |-> <<>>,
          out |-> onmessageCatch(PptxFailure(m))]
    ELSE IF \E k \in 1..Len(d.units) : SlideThrows(d.units[k])
    THEN [pc |-> "idle", i |-> 0, html |-> <<>>,
          out |-> <<ProgressMsg(60)>> \o onmessageCatch(PptxFailure(TypeErrorMsg))]
    ELSE LET html == PptxHeader(Len(d.units)) \o SlidesHtml(d.units, 0) \o <<"</div>">>
         IN [pc |-> "idle", i |-> 0, html |-> html,
             out |-> <<ProgressMsg(60), ProgressMsg(100), ResultMsg("pptx-result", html)>>]

\* self.onmessage up to its first await, for a request of the given type.
onmessage(type, d, m) ==
    CASE type = <<"parse-", "xlsx">> -> parseXlsx(d, m)
      [] type = <<"parse-", "pptx">> -> parsePptx(d)
      [] OTHER -> [pc |-> "idle", i |-> 0, html |-> <<>>,
                   out |-> onmessageCatch(<<"UnsupportedParseType: ">> \o type)]

RECURSIVE ProgressOf(_)
ProgressOf(msgs) ==
    IF msgs = <<>> THEN <<>>
    ELSE (IF Head(msgs).type = "progress" THEN <<Head(msgs).progress>> ELSE <<>>)
         \o ProgressOf(Tail(msgs))

\* The worker script is evaluated: importScripts loads the two libraries, or
\* throws and the script is abandoned with an error event at the page.
WorkerLoad ==
    /\ wpc = "loading"
    /\ \/ /\ wpc' = "ready"
          /\ UNCHANGED errPending
       \/ /\ wpc' = "failed"
          /\ \E em \in CrashMsgs : errPending' = errPending \o <<em>>
    /\ UNCHANGED <<uiVars, doc, env, hostVars, wi, whtml, toWorker, inbox, emitted>>

WorkerStep(r) ==
    /\ wpc' = r.pc
    /\ wi' = r.i
    /\ whtml' = r.html
    /\ inbox' = inbox \o r.out
    /\ emitted' = emitted \o ProgressOf(r.out)

\* self.onmessage takes the request.
WorkerOnMessage ==
    /\ wpc = "ready"
    /\ toWorker # <<>>
    /\ \E m \in LibMsgs : WorkerStep(onmessage(Head(toWorker).type, doc, m))
    /\ toWorker' = Tail(toWorker)
    /\ UNCHANGED <<uiVars, doc, env, hostVars, errPending>>

\* parseXlsx resumes after the 10 ms timer.
WorkerTimer ==
    /\ wpc = "sleep"
    /\ \E m \in LibMsgs : WorkerStep(parseXlsxLoop(wi, whtml, doc.units, m))
    /\ UNCHANGED <<uiVars, doc, env, hostVars, toWorker, errPending>>

\* parsePptx resumes after PptxParser.parse.
WorkerParsed ==
    /\ wpc = "parsing"
    /\ \E m \in LibMsgs : WorkerStep(parsePptxParsed(doc, m))
    /\ UNCHANGED <<uiVars, doc, env, hostVars, toWorker, errPending>>

----------------------------------------------------------------------------
(* optimized-parsing.js: the page *)

\* TRUE when createParserWorker returns a worker: window.Worker exists and
\* the constructor does not throw.
createParserWorker(e) == e = "worker"

\* worker.onmessage for one message: the calls it makes.
workerOnmessage(msg) ==
    IF msg.error # <<>>
    THEN <<ErrorCall(msg.error, "onmessage")>>
    ELSE CASE msg.type \in {"xlsx-result", "pptx-result"} -> <<ResultCall(msg.html, "onmessage")>>
           [] msg.type = "progress" -> <<ProgressCall(msg.progress, "onmessage")>>
           [] OTHER -> <<>>

\* Mutant: the ErrorEvent's message is shown as it is.
workerOnerrorRaw(message) == <<ErrorCall(message, "onerror")>>

\* worker.onerror for an ErrorEvent with the given message: the call it makes.
workerOnerror(message) == <<ErrorCall(<<"ParseFailed: ">> \o message, "onerror")>>

\* parseXlsxInChunks after its loop: progress 100 and the returned value,
\* which parseLargeFile renders.
parseXlsxInChunksFinish(html) ==
    [pc |-> "done", i |-> 0, html |-> html \o <<"</div>">>,
     calls |-> <<ProgressCall(100, "fallback"), ResultCall(html \o <<"</div>">>, "fallback")>>,
     sched |-> <<>>]

\* parseXlsxInChunks from the loop test of iteration i to the await of the
\* idle callback, or to its end.
parseXlsxInChunksLoop(i, html, sheets) ==
    IF i < Len(sheets)
    THEN [pc |-> "fb_idle", i |-> i, html |-> html,
          calls |-> <<ProgressCall(SheetProgress(i, Len(sheets)), "fallback")>>,
          sched |-> <<"yield">>]
    ELSE parseXlsxInChunksFinish(html)

\* parseXlsxInChunks from its first statement; a throw reaches the catch of
\* parseLargeFile with the library's message.
parseXlsxInChunks(d, m) ==
    IF ~d.readOk
    THEN [pc |-> "done", i |-> 0, html |-> <<>>,
          calls |-> <<ProgressCall(10, "fallback"), ErrorCall(m, "fallback")>>,
          sched |-> <<>>]
    ELSE LET r == parseXlsxInChunksLoop(0, XlsxHeader(Len(d.units)), d.units)
         IN [r EXCEPT !.calls = <<ProgressCall(10, "fallback"), ProgressCall(20, "fallback")>>
                                \o r.calls]

\* Mutant: the idle callback is awaited for every second worksheet only.
parseXlsxInChunksIdleTwo(i, html, sheets, m) ==
    IF ~sheets[i + 1].ok
    THEN [pc |-> "done", i |-> i, html |-> html,
          calls |-> <<ErrorCall(m, "fallback")>>, sched |-> <<"unit">>]
    ELSE IF i + 1 < Len(sheets) /\ sheets[i + 2].ok
    THEN LET r == parseXlsxInChunksLoop(i + 2,
                      html \o SheetBlock(i, sheets[i + 1].name)
                           \o SheetBlock(i + 1, sheets[i + 2].name), sheets)
         IN [r EXCEPT !.sched = <<"unit", "unit">> \o r.sched,
                      !.calls = <<ProgressCall(SheetProgress(i + 1, Len(sheets)), "fallback")>>
                                \o r.calls]
    ELSE LET r == parseXlsxInChunksLoop(i + 1, html \o SheetBlock(i, sheets[i + 1].name), sheets)
         IN [r EXCEPT !.sched = <<"unit">> \o r.sched]

\* parseXlsxInChunks after the idle callback of iteration i: the worksheet
\* is converted and the loop goes on.
parseXlsxInChunksIdle(i, html, sheets, m) ==
    IF ~sheets[i + 1].ok
    THEN [pc |-> "done", i |-> i, html |-> html,
          calls |-> <<ErrorCall(m, "fallback")>>, sched |-> <<"unit">>]
    ELSE LET r == parseXlsxInChunksLoop(i + 1, html \o SheetBlock(i, sheets[i + 1].name), sheets)
         IN [r EXCEPT !.sched = <<"unit">> \o r.sched]

\* parsePptxInChunks is called by parseLargeFile and defined in neither
\* file.  It is modelled from the specification: the presentation path of
\* the conversion engine (checkpoints 10/30/60/100, the worker's HTML), run
\* cooperatively with one suspension point after each slide, a slide that
\* fails rendered as inline degraded content, the value returned as
\* { value: html }.
DegradedSlide(index) ==
    <<"<div class=slide slide-", ToString(index + 1), "\">", "<p class=degraded>", "</p>", "</div>", "<hr>">>

parsePptxInChunks(d) ==
    [pc |-> "fb_parse", i |-> 0, html |-> <<>>,
     calls |-> <<ProgressCall(10, "fallback"), ProgressCall(30, "fallback")>>,
     sched |-> <<>>]

parsePptxInChunksLoop(i, html, slides) ==
    IF i < Len(slides)
    THEN [pc |-> "fb_pidle", i |-> i + 1,
          html |-> html \o (IF SlideThrows(slides[i + 1])
                            THEN DegradedSlide(i)
                            ELSE SlideHtml(slides[i + 1], i)),
          calls |-> <<>>, sched |-> <<"unit", "yield">>]
    ELSE [pc |-> "done", i |-> i, html |-> html \o <<"</div>">>,
          calls |-> <<ProgressCall(100, "fallback"), ResultCall(html \o <<"</div>">>, "fallback")>>,
          sched |-> <<>>]

parsePptxInChunksParsed(d, m) ==
    IF ~d.readOk
    THEN [pc |-> "done", i |-> 0, html |-> <<>>,
          calls |-> <<ErrorCall(m, "fallback")>>, sched |-> <<>>]
    ELSE LET r == parsePptxInChunksLoop(0, PptxHeader(Len(d.units)), d.units)
         IN [r EXCEPT !.calls = <<ProgressCall(60, "fallback")>> \o r.calls]

RECURSIVE ProgressPcts(_)
ProgressPcts(calls) ==
    IF calls = <<>> THEN <<>>
    ELSE (IF Head(calls).type = "progress" THEN <<Head(calls).pct>> ELSE <<>>)
         \o ProgressPcts(Tail(calls))

\* The switch of parseLargeFile's fallback branch, up to the first await.
fallbackStart(d, m) ==
    CASE d.kind = "xlsx" -> parseXlsxInChunks(d, m)
      [] d.kind = "pptx" -> parsePptxInChunks(d)
      [] OTHER -> [pc |-> "done", i |-> 0, html |-> <<>>,
                   calls |-> <<ErrorCall(<<"UnsupportedDocType: ", d.kind>>, "fallback")>>,
                   sched |-> <<>>]

FallbackStep(pv, r) ==
    /\ hpc' = r.pc
    /\ fi' = r.i
    /\ fhtml' = r.html
    /\ preview' = ApplyCalls(pv, r.calls)
    /\ events' = events \o r.calls
    /\ emitted' = emitted \o ProgressPcts(r.calls)
    /\ sched' = sched \o r.sched

\* Mutant: the else is missing, the fallback parser runs on the buffer that
\* was just posted to the worker.
ParseLargeFileBoth ==
    /\ hpc = "idle"
    /\ IF createParserWorker(env)
       THEN /\ wpc' = "loading"
            /\ toWorker' = toWorker \o <<[type |-> <<"parse-", doc.kind>>]>>
            /\ buffer' = "worker"
            /\ \E m \in LibMsgs : FallbackStep(ProgressMarkup, fallbackStart(doc, m))
            /\ UNCHANGED <<wi, whtml>>
       ELSE /\ \E m \in LibMsgs : FallbackStep(ProgressMarkup, fallbackStart(doc, m))
            /\ UNCHANGED <<buffer, workerVars, toWorker>>
    /\ UNCHANGED <<uiVars, doc, env, inbox, errPending>>

\* parseLargeFile up to its return (worker) or first await (fallback).
ParseLargeFile ==
    /\ hpc = "idle"
    /\ IF createParserWorker(env)
       THEN /\ hpc' = "waiting"
            /\ preview' = ProgressMarkup
            /\ wpc' = "loading"
            /\ toWorker' = toWorker \o <<[type |-> <<"parse-", doc.kind>>]>>
            /\ buffer' = "worker"
            /\ UNCHANGED <<fi, fhtml, events, emitted, sched, wi, whtml>>
       ELSE /\ \E m \in LibMsgs : FallbackStep(ProgressMarkup, fallbackStart(doc, m))
            /\ UNCHANGED <<buffer, workerVars, toWorker>>
    /\ UNCHANGED <<uiVars, doc, env, inbox, errPending>>

\* The idle callback of parseXlsxInChunks fires.
FallbackIdle ==
    /\ hpc = "fb_idle"
    /\ \E m \in LibMsgs : FallbackStep(preview, parseXlsxInChunksIdle(fi, fhtml, doc.units, m))
    /\ UNCHANGED <<uiVars, doc, env, buffer, workerVars, toWorker, inbox, errPending>>

\* PptxParser.parse settles in parsePptxInChunks.
FallbackParsed ==
    /\ hpc = "fb_parse"
    /\ \E m \in LibMsgs : FallbackStep(preview, parsePptxInChunksParsed(doc, m))
    /\ UNCHANGED <<uiVars, doc, env, buffer, workerVars, toWorker, inbox, errPending>>

\* parsePptxInChunks resumes after the suspension point of a slide.
FallbackSlideIdle ==
    /\ hpc = "fb_pidle"
    /\ FallbackStep(preview, parsePptxInChunksLoop(fi, fhtml, doc.units))
    /\ UNCHANGED <<uiVars, doc, env, buffer, workerVars, toWorker, inbox, errPending>>

\* worker.onmessage handles the next message of the worker.
HostOnMessage ==
    /\ inbox # <<>>
    /\ LET calls == workerOnmessage(Head(inbox))
       IN /\ preview' = ApplyCalls(preview, calls)
          /\ events' = events \o calls
    /\ inbox' = Tail(inbox)
    /\ UNCHANGED <<uiVars, doc, env, hpc, fi, fhtml, buffer, sched, workerVars, toWorker,
                   errPending, emitted>>

\* worker.onerror handles the worker's error event and terminates the
\* worker, which drops what the worker had posted and what was posted to it.
HostOnError ==
    /\ errPending # <<>>
    /\ LET calls == workerOnerror(Head(errPending))
       IN /\ preview' = ApplyCalls(preview, calls)
          /\ events' = events \o calls
    /\ errPending' = <<>>
    /\ wpc' = "terminated"
    /\ inbox' = <<>>
    /\ toWorker' = <<>>
    /\ UNCHANGED <<uiVars, doc, env, hpc, fi, fhtml, buffer, sched, wi, whtml, emitted>>

----------------------------------------------------------------------------

\* #document-preview before any request.
EmptyPreview == [kind |-> "empty", width |-> 0, html |-> <<>>, message |-> <<>>]

\* No second request.
NoDoc == [kind |-> "none", readOk |-> FALSE, units |-> <<>>]

\* An img element as lazyLoadImages sees it: whether it carries data-src, how
\* many observers observe it, how often its src was assigned and to what, and
\* whether an observer reported it intersecting.
FreshImg == [dataSrc |-> TRUE, observers |-> 0, swaps |-> 0, src |-> "none", hit |-> FALSE]

\* A container without img elements.
NoImgs == [e \in {} |-> FreshImg]

\* Nothing rendered: renderParsedContent has not built a view.  The HTML of
\* the documents above is far below the windowing threshold and holds no
\* deferred image, so the requests of Spec leave the view alone.
NoView ==
    [mode |-> "none", n |-> 0, totalHeight |-> 0, refImgs |-> {}, vh |-> 0,
     scrollTop |-> 0, currentStart |-> 0, slice |-> <<>>, translateY |-> 0,
     ticked |-> FALSE, imgs |-> NoImgs]

\* The first request before parseLargeFile is called.
FirstIdle ==
    /\ hpc = "idle"
    /\ fi = 0
    /\ fhtml = <<>>
    /\ preview = EmptyPreview
    /\ buffer = "host"
    /\ wpc = "none"
    /\ wi = 0
    /\ whtml = <<>>
    /\ toWorker = <<>>
    /\ inbox = <<>>
    /\ errPending = <<>>
    /\ events = <<>>
    /\ emitted = <<>>
    /\ sched = <<>>

\* No second parseLargeFile call has been made.
SecondIdle ==
    /\ hpc2 = "idle"
    /\ wpc2 = "none"
    /\ wi2 = 0
    /\ whtml2 = <<>>
    /\ toWorker2 = <<>>
    /\ inbox2 = <<>>
    /\ errPending2 = <<>>
    /\ last2 = EmptyPreview
    /\ clobbered = FALSE

Init ==
    /\ doc \in DocSet
    /\ env \in {"worker", "noWorker", "ctorThrows"}
    /\ FirstIdle
    /\ view = NoView
    /\ doc2 = NoDoc
    /\ SecondIdle

Next ==
    \/ ParseLargeFile
    \/ WorkerLoad
    \/ WorkerOnMessage
    \/ WorkerTimer
    \/ WorkerParsed
    \/ HostOnMessage
    \/ HostOnError
    \/ FallbackIdle
    \/ FallbackParsed
    \/ FallbackSlideIdle

Spec == Init /\ [][Next]_vars

----------------------------------------------------------------------------
(* Properties *)

IsTerminal(e) == e.type \in {"result", "error"}

TerminalIdx == { i \in DOMAIN events : IsTerminal(events[i]) }

\* The request was made and nothing of it is left to run or to deliver.
Quiescent ==
    /\ hpc \in {"waiting", "done"}
    /\ wpc \in {"none", "ready", "idle", "terminated"}
    /\ wpc = "ready" => toWorker = <<>>
    /\ inbox = <<>>
    /\ errPending = <<>>

\* The worker was not lost: its script loaded, or no worker is used.
ExecutorRan == wpc \notin {"failed", "terminated"}

NonDecreasing(ps) == \A i, j \in DOMAIN ps : i <= j => ps[i] <= ps[j]

\* C1: every request ends with exactly one terminal call at the page:
\* renderParsedContent or handleParsingError is called at most once in all,
\* and once the request has nothing left to run or deliver, exactly once.
C1_ExactlyOneTerminal ==
    /\ Cardinality(TerminalIdx) <= 1
    /\ Quiescent => Cardinality(TerminalIdx) = 1

\* A worker request that ended with its result rendered.
C1_Witness ==
    /\ Quiescent
    /\ \E i \in DOMAIN events : events[i].type = "result" /\ events[i].via = "onmessage"

\* C2: the progress values of a request never decrease, as emitted by the
\* executor and as shown by the page, and the call before a result is the
\* progress 100.
C2_ProgressMonotoneTo100 ==
    /\ NonDecreasing(emitted)
    /\ NonDecreasing(ProgressPcts(events))
    /\ \A i \in DOMAIN events :
         events[i].type = "result" =>
            i > 1 /\ events[i - 1].type = "progress" /\ events[i - 1].pct = 100

\* A spreadsheet of at least two worksheets was rendered.
C2_Witness ==
    /\ doc.kind = "xlsx" /\ Len(doc.units) >= 2
    /\ \E i \in DOMAIN events : events[i].type = "result"

\* C3: once the page has made the terminal call of a request, every
\* progress value the executor emitted has been shown before it, the
\* terminal call is the last call, and nothing of the request can run any
\* more (no message, no timer, no second executor).
C3_TerminalIsLast ==
    TerminalIdx # {} =>
        /\ \A i \in TerminalIdx : i = Len(events)
        /\ ProgressPcts(events) = emitted
        /\ Quiescent

\* A worker request whose progress was shown and then its terminal call made.
C3_Witness ==
    /\ hpc = "waiting"
    /\ Len(events) >= 4
    /\ IsTerminal(events[Len(events)])

Positions(html, tok) == { k \in DOMAIN html : html[k] = tok }

\* The j-th smallest element of a set of numbers.
Nth(P, j) == CHOOSE p \in P : Cardinality({ q \in P : q < p }) = j - 1

\* The text between "Sheet <number> :" and "</h4>" of the worksheet block
\* that starts at position p.
NameAt(html, p) ==
    LET e == CHOOSE q \in (p + 1)..Len(html) :
                 /\ html[q] = "</h4>"
                 /\ \A r \in (p + 1)..(q - 1) : html[r] # "</h4>"
    IN SubSeq(html, p + 5, e - 1)

\* C4: a rendered spreadsheet of n >= 1 worksheets has exactly n
\* worksheet-container blocks, named in the order of workbook.SheetNames,
\* and its progress values are 10, 20, n values within 20..80, then 100.
C4_SheetsInOrder ==
    \A i \in DOMAIN events :
        (events[i].type = "result" /\ doc.kind = "xlsx" /\ Len(doc.units) >= 1) =>
            LET html == events[i].body
                n == Len(doc.units)
                P == Positions(html, "<div class=worksheet-container>")
                ps == ProgressPcts(events)
            IN /\ Cardinality(P) = n
               /\ \A j \in 1..n : NameAt(html, Nth(P, j)) = doc.units[j].name
               /\ Len(ps) = n + 3
               /\ ps[1] = 10 /\ ps[2] = 20 /\ ps[n + 3] = 100
               /\ \A j \in 3..(n + 2) : ps[j] \in 20..80

\* A spreadsheet of two or more worksheets rendered by the fallback.
C4_Witness ==
    /\ doc.kind = "xlsx" /\ Len(doc.units) >= 2
    /\ \E i \in DOMAIN events : events[i].type = "result" /\ events[i].via = "fallback"

\* C5: a readable spreadsheet without worksheets or presentation without
\* slides, converted by an executor that ran, ends with a result whose HTML
\* is the wrapper with a header counting 0 and no block; the spreadsheet's
\* progress values are 10, 20, 100.
C5_EmptyDocument ==
    (Quiescent /\ ExecutorRan /\ doc.readOk /\ doc.units = <<>>) =>
        /\ events # <<>>
        /\ events[Len(events)].type = "result"
        /\ doc.kind = "xlsx" =>
             /\ events[Len(events)].body =
                  <<"<div class=xlsx-content>", "<h3>", "Excel:", "0", "sheets", "</h3>", "</div>">>
             /\ ProgressPcts(events) = <<10, 20, 100>>
        /\ doc.kind = "pptx" =>
             events[Len(events)].body =
                  <<"<div class=pptx-content>", "<h3>", "PowerPoint:", "0", "slides", "</h3>", "</div>">>

\* The worker rendered a spreadsheet without worksheets.
C5_Witness ==
    /\ Quiescent /\ doc.kind = "xlsx" /\ doc.readOk /\ doc.units = <<>>
    /\ \E i \in DOMAIN events : events[i].type = "result" /\ events[i].via = "onmessage"

Entity(c) ==
    CASE c = "&" -> <<"&", "a", "m", "p", ";">>
      [] c = "<" -> <<"&", "l", "t", ";">>
      [] c = ">" -> <<"&", "g", "t", ";">>
      [] c = "\"" -> <<"&", "q", "u", "o", "t", ";">>
      [] c = "'" -> <<"&", "#", "0", "3", "9", ";">>
      [] OTHER -> <<c>>

RECURSIVE Escaped(_)
Escaped(text) == IF text = <<>> THEN <<>> ELSE Entity(Head(text)) \o Escaped(Tail(text))

\* C6: document text reaches the result HTML only escaped: no raw "<" or
\* ">" character is in it, and each worksheet name is there as its entities.
C6_AllTextEscaped ==
    \A i \in DOMAIN events :
        events[i].type = "result" =>
            LET html == events[i].body
                P == Positions(html, "<div class=worksheet-container>")
            IN /\ \A k \in DOMAIN html : html[k] \notin {"<", ">"}
               /\ doc.kind = "xlsx" =>
                    \A j \in 1..Cardinality(P) :
                        NameAt(html, Nth(P, j)) = Escaped(doc.units[j].name)

\* C7: when the structure of the document was read, a worksheet or slide
\* that fails to convert does not fail the request: a request whose
\* executor ran ends with a result exactly when the structure was read.
C7_SubUnitFailSoft ==
    (Quiescent /\ ExecutorRan) =>
        (doc.readOk <=> \E i \in DOMAIN events : events[i].type = "result")

Range(f) == { f[x] : x \in DOMAIN f }

\* Every run of the worker's code between two awaits, over all documents.
WorkerSegments ==
    { onmessage(<<"parse-", d.kind>>, d, m) : d \in DocSet, m \in LibMsgs }
    \cup UNION { { parseXlsxLoop(i, <<>>, d.units, m) : i \in 0..Len(d.units), m \in LibMsgs } :
                 d \in { x \in DocSet : x.kind = "xlsx" } }
    \cup { parsePptxParsed(d, m) : d \in { x \in DocSet : x.kind = "pptx" }, m \in LibMsgs }

\* Every text the worker can post in an 'error' message.
WorkerErrorTexts ==
    { msg.error : msg \in UNION { Range(r.out) : r \in WorkerSegments } } \ { <<>> }

C9_UnknownKindNotDispatched ==
    doc.kind \notin {"xlsx", "pptx"} =>
        /\ toWorker = <<>>
        /\ buffer = "host"
        /\ wpc = "none"
        /\ emitted = <<>>
        /\ sched = <<>>
        /\ Quiescent => (events # <<>> /\ events[Len(events)].type = "error")

\* C10: the fallback never converts two sub-units without a suspension
\* point between them, and a conversion that ends with a result has
\* suspended exactly once per sub-unit.
C10_YieldPerUnit ==
    /\ \A k \in 1..(Len(sched) - 1) : ~(sched[k] = "unit" /\ sched[k + 1] = "unit")
    /\ (hpc = "done" /\ \E i \in DOMAIN events : events[i].type = "result") =>
          /\ Cardinality(Positions(sched, "yield")) = Len(doc.units)
          /\ Cardinality(Positions(sched, "unit")) = Len(doc.units)

\* The fallback rendered a spreadsheet of two or more worksheets.
C10_Witness ==
    /\ hpc = "done" /\ doc.kind = "xlsx" /\ Len(doc.units) >= 2
    /\ \E i \in DOMAIN events : events[i].type = "result"


----------------------------------------------------------------------------
(* The whole run of each executor on a document, from the code above *)

RECURSIVE WorkerRest(_, _, _)
WorkerRest(r, d, m) ==
    IF r.pc = "sleep"
    THEN LET n == parseXlsxLoop(r.i, r.html, d.units, m) IN n.out \o WorkerRest(n, d, m)
    ELSE IF r.pc = "parsing" THEN parsePptxParsed(d, m).out
    ELSE <<>>

\* Every message the worker posts for the request of document d.
WorkerMessages(d, m) ==
    LET r == onmessage(<<"parse-", d.kind>>, d, m) IN r.out \o WorkerRest(r, d, m)

RECURSIVE CallsOf(_)
CallsOf(msgs) ==
    IF msgs = <<>> THEN <<>> ELSE workerOnmessage(Head(msgs)) \o CallsOf(Tail(msgs))

RECURSIVE FallbackRest(_, _, _)
FallbackRest(r, d, m) ==
    IF r.pc = "fb_idle"
    THEN LET n == parseXlsxInChunksIdle(r.i, r.html, d.units, m) IN n.calls \o FallbackRest(n, d, m)
    ELSE IF r.pc = "fb_parse"
    THEN LET n == parsePptxInChunksParsed(d, m) IN n.calls \o FallbackRest(n, d, m)
    ELSE IF r.pc = "fb_pidle"
    THEN LET n == parsePptxInChunksLoop(r.i, r.html, d.units) IN n.calls \o FallbackRest(n, d, m)
    ELSE <<>>

\* Every call the fallback makes for the request of document d.
FallbackCalls(d, m) ==
    LET r == fallbackStart(d, m) IN r.calls \o FallbackRest(r, d, m)

\* What the claim compares: the progress values, the terminal kind and the
\* HTML of a result (not the text of an error, not the handler).
StreamOf(calls) ==
    [k \in DOMAIN calls |->
        [type |-> calls[k].type, pct |-> calls[k].pct,
         body |-> IF calls[k].type = "result" THEN calls[k].body ELSE <<>>]]

\* C11: for the same document the worker and the fallback give the page the
\* same stream: the calls of a finished request are those the other
\* executor makes for the document.
C11_ExecutorsEquivalent ==
    (Quiescent /\ ExecutorRan) =>
        LET m == CHOOSE x \in LibMsgs : TRUE
        IN StreamOf(events) =
             StreamOf(IF env = "worker" THEN FallbackCalls(doc, m)
                      ELSE CallsOf(WorkerMessages(doc, m)))


RequestMade == hpc # "idle"
WorkerChosen == wpc # "none"
FallbackChosen == hpc \in {"fb_idle", "fb_parse", "fb_pidle", "done"}

\* C12: the buffer has one owner: the page until it is posted, the worker
\* from then on; after the post the page's parser never runs on it (no
\* fallback step, call or suspension) and nothing is posted a second time;
\* a request has exactly one executor, the worker or the fallback.
C12_SingleOwner ==
    /\ buffer = "worker" <=> WorkerChosen
    /\ buffer = "worker" =>
         /\ ~FallbackChosen
         /\ fi = 0 /\ fhtml = <<>> /\ sched = <<>>
         /\ \A i \in DOMAIN events : events[i].via # "fallback"
         /\ Len(toWorker) <= 1
    /\ buffer = "host" => \A i \in DOMAIN events : events[i].via = "fallback"
    /\ RequestMade => (WorkerChosen <=> ~FallbackChosen)

\* The buffer went to the worker and the request has ended.
C12_Witness == buffer = "worker" /\ Quiescent /\ events # <<>>


\* The part of a presentation's HTML for its j-th slide.
SlideBlock(html, j) ==
    LET P == Positions(html, "<div class=slide slide-")
    IN SubSeq(html, Nth(P, j),
              IF j < Cardinality(P) THEN Nth(P, j + 1) - 1 ELSE Len(html) - 1)

IsRunOpen(tok) == tok \in {"<h5", "<h6", "<p"}
IsRunClose(tok) == tok \in {"</h5>", "</h6>", "</p>"}

ExpectedOpen(level) == CASE level = 0 -> "<h5" [] level = 1 -> "<h6" [] OTHER -> "<p"
ExpectedClose(level) == CASE level = 0 -> "</h5>" [] level = 1 -> "</h6>" [] OTHER -> "</p>"

IsResultMsg(msg) == msg.type \in {"xlsx-result", "pptx-result"}

\* C20: progress 100 belongs to the success path only: a request that has
\* shown an error never emitted 100, and a 100 is followed at once by the
\* result, in what the worker posts and in what the page shows.
C20_HundredOnlyOnSuccess ==
    /\ (\E i \in DOMAIN events : events[i].type = "error") =>
          \A k \in DOMAIN emitted : emitted[k] # 100
    /\ \A k \in DOMAIN emitted : emitted[k] = 100 => k = Len(emitted)
    /\ \A k \in DOMAIN inbox :
          (inbox[k].type = "progress" /\ inbox[k].progress = 100) =>
              k < Len(inbox) /\ IsResultMsg(inbox[k + 1])
    /\ \A i \in DOMAIN events :
          (events[i].type = "progress" /\ events[i].pct = 100) =>
              \/ i < Len(events) /\ events[i + 1].type = "result"
              \/ i = Len(events) /\ inbox # <<>> /\ IsResultMsg(Head(inbox))

\* The page has shown the 100 of a worker and then its result.
C20_Witness ==
    /\ Len(events) >= 2
    /\ events[Len(events)].type = "result"
    /\ events[Len(events)].via = "onmessage"
    /\ events[Len(events) - 1].pct = 100

----------------------------------------------------------------------------
(* updateProgressIndicator called with any integer *)

\* How far below 0 and above 100 the percents passed go.
PctSlack == 20

PercentInputs == (0 - PctSlack)..(100 + PctSlack)

\* A workbook of one worksheet.
OneSheetDoc == [kind |-> "xlsx", readOk |-> TRUE, units |-> <<[name |-> <<"A">>, ok |-> TRUE]>>]

\* The page right after parseLargeFile has shown the progress markup and
\* posted the request to its worker.
InitProgress ==
    /\ doc = OneSheetDoc
    /\ env = "worker"
    /\ hpc = "waiting"
    /\ fi = 0
    /\ fhtml = <<>>
    /\ preview = ProgressMarkup
    /\ buffer = "worker"
    /\ wpc = "loading"
    /\ wi = 0
    /\ whtml = <<>>
    /\ toWorker = <<[type |-> <<"parse-", "xlsx">>]>>
    /\ inbox = <<>>
    /\ errPending = <<>>
    /\ events = <<>>
    /\ emitted = <<>>
    /\ sched = <<>>
    /\ view = NoView
    /\ doc2 = NoDoc
    /\ SecondIdle

\* One call of updateProgressIndicator(percent).
UpdateProgress ==
    /\ \E percent \in PercentInputs : preview' = updateProgressIndicator(preview, percent)
    /\ UNCHANGED <<uiVars, doc, env, hpc, fi, fhtml, buffer, workerVars, toWorker, inbox,
                   errPending, events, emitted, sched>>

NextProgress == UpdateProgress

SpecProgress == InitProgress /\ [][NextProgress]_vars

\* C19: whatever integer is passed to updateProgressIndicator, the width the
\* progress indicator shows lies in [0, 100].
C19_WidthClamped ==
    preview.kind = "progress" => preview.width \in 0..100

----------------------------------------------------------------------------
(* optimized-parsing.js: renderParsedContent, the windowed renderer, lazy images *)

\* html.length above which renderParsedContent windows the content.
WindowThreshold == 500000

\* The buffer of enableVirtualScrolling, in pixels.
BufferPx == 200

\* The pixels renderVisibleContent divides by to get a node index.
RowHeight == 10

\* The most top-level nodes of a page.
MaxNodes == 55

\* The most src assignments of one img that are followed.
MaxSwaps == 2

Max(a, b) == IF a >= b THEN a ELSE b
Min(a, b) == IF a <= b THEN a ELSE b

\* Math.floor(a / b) and Math.ceil(a / b) for b > 0.
FloorDiv(a, b) == a \div b
CeilDiv(a, b) == 0 - ((0 - a) \div b)

\* The HTML handed to renderParsedContent: its length, the number of its
\* top-level nodes, the height the browser lays it out at (offsetHeight of
\* tempDiv), and the nodes (0-based) that hold a deferred image.
PageSet ==
    { [html |-> <<"rows">>, length |-> WindowThreshold + 1, n |-> MaxNodes,
       totalHeight |-> MaxNodes * RowHeight, refImgs |-> {0, MaxNodes - 1}],
      [html |-> <<"tall">>, length |-> WindowThreshold + 1, n |-> 3,
       totalHeight |-> 600, refImgs |-> {2}],
      [html |-> <<"short">>, length |-> WindowThreshold, n |-> 3,
       totalHeight |-> 600, refImgs |-> {0, 2}] }

\* container.clientHeight.
Viewports == {95, 100}

\* The nodes at indices from..to-1, in order.
NodeRange(from, to) == [k \in 1..(to - from) |-> from + k - 1]

\* The img elements of a container that holds fresh copies of the nodes.
ImgsOf(nodes, refImgs) ==
    [e \in {nodes[k] : k \in 1..Len(nodes)} \cap refImgs |-> FreshImg]

\* Mutant: the observer callback keeps observing and keeps data-src.
observerCallbackKeep(img) ==
    [img EXCEPT !.src = IF img.dataSrc THEN "real" ELSE "undefined",
                !.swaps = @ + 1]

\* The IntersectionObserver callback of lazyLoadImages for an intersecting
\* entry: src = dataset.src, data-src removed, the img unobserved.
observerCallback(img) ==
    [img EXCEPT !.src = IF img.dataSrc THEN "real" ELSE "undefined",
                !.swaps = @ + 1,
                !.dataSrc = FALSE,
                !.observers = @ - 1]

\* lazyLoadImages(container): a new observer observes every img that still
\* carries data-src.
lazyLoadImages(imgs) ==
    [e \in DOMAIN imgs |->
        IF imgs[e].dataSrc THEN [imgs[e] EXCEPT !.observers = @ + 1] ELSE imgs[e]]

\* Mutant: the end of the range is taken two buffers below the viewport.
renderVisibleContentWide(v) ==
    LET start == Max(0, FloorDiv(v.scrollTop - BufferPx, RowHeight))
        end == CeilDiv(v.scrollTop + v.vh + 2 * BufferPx, RowHeight)
        startIndex == Min(start, v.n)
        endIndex == Min(end, v.n)
        nodes == NodeRange(startIndex, endIndex)
    IN IF start # v.currentStart
       THEN [v EXCEPT !.currentStart = start,
                      !.slice = nodes,
                      !.translateY = start * RowHeight,
                      !.imgs = lazyLoadImages(ImgsOf(nodes, v.refImgs)),
                      !.ticked = TRUE]
       ELSE [v EXCEPT !.ticked = TRUE]

\* renderVisibleContent, one animation frame: the scroll container is
\* emptied and refilled with clones only when start differs from
\* currentStart; the clones are new elements, so their imgs are fresh.
renderVisibleContent(v) ==
    LET start == Max(0, FloorDiv(v.scrollTop - BufferPx, RowHeight))
        end == CeilDiv(v.scrollTop + v.vh + BufferPx, RowHeight)
        startIndex == Min(start, v.n)
        endIndex == Min(end, v.n)
        nodes == NodeRange(startIndex, endIndex)
    IN IF start # v.currentStart
       THEN [v EXCEPT !.currentStart = start,
                      !.slice = nodes,
                      !.translateY = start * RowHeight,
                      !.imgs = lazyLoadImages(ImgsOf(nodes, v.refImgs)),
                      !.ticked = TRUE]
       ELSE [v EXCEPT !.ticked = TRUE]

\* enableVirtualScrolling(container, html): the scroller at offset 0, an
\* empty scroll container, currentStart = 0, then the first
\* renderVisibleContent call.
enableVirtualScrolling(page, vh) ==
    renderVisibleContent(
        [mode |-> "virtual", n |-> page.n, totalHeight |-> page.totalHeight,
         refImgs |-> page.refImgs, vh |-> vh, scrollTop |-> 0, currentStart |-> 0,
         slice |-> <<>>, translateY |-> 0, ticked |-> FALSE, imgs |-> NoImgs])

\* The else branch of renderParsedContent: the whole HTML is attached and
\* lazyLoadImages runs once on it.
renderDirect(page, vh) ==
    [mode |-> "direct", n |-> page.n, totalHeight |-> page.totalHeight,
     refImgs |-> page.refImgs, vh |-> vh, scrollTop |-> 0, currentStart |-> 0,
     slice |-> NodeRange(0, page.n), translateY |-> 0, ticked |-> FALSE,
     imgs |-> lazyLoadImages(ImgsOf(NodeRange(0, page.n), page.refImgs))]

\* What renderParsedContent builds in #document-preview.
renderParsedContentView(page, vh) ==
    IF page.length > WindowThreshold
    THEN enableVirtualScrolling(page, vh)
    ELSE renderDirect(page, vh)

\* The largest scroll offset of the scroller: the placeholder is totalHeight
\* high, the scroller as high as the container.
MaxScroll(v) == Max(0, v.totalHeight - v.vh)

\* Where one scroll event can take the scroller.
ScrollTargets(v) ==
    { Max(0, Min(MaxScroll(v), v.scrollTop + d)) : d \in {0 - 50, 0 - 5, 5, 50} }
    \cup {0, MaxScroll(v)}

\* renderParsedContent(html) for a page.
RenderContent ==
    /\ view.mode = "none"
    /\ \E page \in PageSet, vh \in Viewports :
          /\ view' = renderParsedContentView(page, vh)
          /\ preview' = renderParsedContent(preview, page.html)
    /\ UNCHANGED <<doc, env, hpc, fi, fhtml, buffer, workerVars, toWorker, inbox,
                   errPending, events, emitted, sched, doc2, hpc2, wpc2, wi2, whtml2,
                   toWorker2, inbox2, errPending2, last2, clobbered>>

\* The user scrolls the scroller.
Scroll ==
    /\ view.mode = "virtual"
    /\ \E t \in ScrollTargets(view) :
          /\ t # view.scrollTop
          /\ view' = [view EXCEPT !.scrollTop = t, !.ticked = FALSE]
    /\ UNCHANGED <<doc, env, hostVars, workerVars, toWorker, inbox, errPending, emitted,
                   doc2, hpc2, wpc2, wi2, whtml2, toWorker2, inbox2, errPending2, last2,
                   clobbered>>

\* The animation frame requested by renderVisibleContent fires.
RenderTick ==
    /\ view.mode = "virtual"
    /\ view' = renderVisibleContent(view)
    /\ UNCHANGED <<doc, env, hostVars, workerVars, toWorker, inbox, errPending, emitted,
                   doc2, hpc2, wpc2, wi2, whtml2, toWorker2, inbox2, errPending2, last2,
                   clobbered>>

\* An observer reports an img it observes as intersecting.
Intersect ==
    /\ view.mode # "none"
    /\ \E e \in DOMAIN view.imgs :
          /\ view.imgs[e].observers >= 1
          /\ view.imgs[e].swaps < MaxSwaps
          /\ view' = [view EXCEPT !.imgs[e] = observerCallback([@ EXCEPT !.hit = TRUE])]
    /\ UNCHANGED <<doc, env, hostVars, workerVars, toWorker, inbox, errPending, emitted,
                   doc2, hpc2, wpc2, wi2, whtml2, toWorker2, inbox2, errPending2, last2,
                   clobbered>>

\* The page when a converted document is about to be rendered.
InitView ==
    /\ doc = OneSheetDoc
    /\ env = "worker"
    /\ FirstIdle
    /\ view = NoView
    /\ doc2 = NoDoc
    /\ SecondIdle

NextView ==
    \/ RenderContent
    \/ Scroll
    \/ RenderTick
    \/ Intersect

SpecView == InitView /\ [][NextView]_vars

----------------------------------------------------------------------------
(* Properties of the windowed renderer and of lazy images *)

\* The index range renderVisibleContent computes from the current offset.
ExpectedSlice(v) ==
    LET start == Max(0, FloorDiv(v.scrollTop - BufferPx, RowHeight))
        end == CeilDiv(v.scrollTop + v.vh + BufferPx, RowHeight)
    IN NodeRange(Min(start, v.n), Min(end, v.n))

\* C13 as stated: in windowed mode the number of attached nodes never
\* exceeds (viewport height + 2 x buffer) / row-height.
C13_Original ==
    view.mode = "virtual" =>
        Len(view.slice) * RowHeight <= view.vh + 2 * BufferPx

\* C13, amended: in windowed mode the number of attached nodes stays below
\* (viewport height + 2 x buffer) / row-height + 2: the floor of the start
\* and the ceiling of the end add up to less than two rows.
C13_AttachedBelowWindowPlusTwo ==
    view.mode = "virtual" =>
        Len(view.slice) * RowHeight < view.vh + 2 * BufferPx + 2 * RowHeight

\* A slice that holds more nodes than (viewport height + 2 x buffer) / row-height.
C13_Witness ==
    /\ view.mode = "virtual"
    /\ view.ticked
    /\ Len(view.slice) * RowHeight > view.vh + 2 * BufferPx

\* The scroller has been moved to the end of its scroll region.
AtEnd ==
    /\ view.mode = "virtual"
    /\ view.scrollTop > 0
    /\ view.scrollTop = MaxScroll(view)

\* The slice holds a clone of the last node of the reference tree.
LastShown == \E k \in 1..Len(view.slice) : view.slice[k] = view.n - 1

\* The animation frames keep firing.
SpecViewLive == InitView /\ [][NextView]_vars /\ WF_vars(RenderTick)

\* C14: once the scroller is at its end, the slice eventually holds a clone
\* of the last node of the reference tree, unless the user scrolls away.
C14_EndShowsLastNode == AtEnd ~> (LastShown \/ ~AtEnd)

\* C16: after a render tick the slice is the index range computed from the
\* current scroll offset.
C16_SliceIsComputedRange ==
    (view.mode = "virtual" /\ view.ticked) => view.slice = ExpectedSlice(view)

\* C18: an img has its src assigned at most once, only after an observer
\* reported it intersecting, and from its data-src; once swapped it has no
\* data-src and no observer; no img is observed by two observers.
C18_SwapOnce ==
    \A e \in DOMAIN view.imgs :
        LET img == view.imgs[e] IN
        /\ img.swaps <= 1
        /\ img.observers <= 1
        /\ img.swaps = 0 => (img.src = "none" /\ img.dataSrc /\ img.observers = 1)
        /\ img.swaps = 1 => (img.src = "real" /\ img.hit /\ ~img.dataSrc /\ img.observers = 0)

\* In windowed mode, after the slice has been replaced away from the start
\* of the page, one of its imgs has been swapped.
C18_Witness ==
    /\ view.mode = "virtual"
    /\ view.currentStart > 0
    /\ \E e \in DOMAIN view.imgs : view.imgs[e].swaps = 1

----------------------------------------------------------------------------
(* Two parseLargeFile calls in flight: both write #document-preview *)

\* The documents of the two requests.
TwoDocs ==
    { OneSheetDoc,
      [kind |-> "xlsx", readOk |-> FALSE, units |-> <<>>],
      [kind |-> "pptx", readOk |-> TRUE,
       units |-> <<[present |-> TRUE,
                    text |-> <<[level |-> 2, content |-> <<"A">>, bad |-> FALSE]>>]>>] }

\* What a handler of the second request does to the preview: last2 keeps
\* what it leaves, and clobbered records that it changed a preview that was
\* not as the second request had left it, that is, one the first request
\* had written since.
SecondWrites(calls) ==
    /\ preview' = ApplyCalls(preview, calls)
    /\ last2' = preview'
    /\ clobbered' = (clobbered \/ (preview # last2 /\ preview' # preview))

\* The second parseLargeFile call, made with Worker support.
ParseLargeFile2 ==
    /\ hpc2 = "idle"
    /\ createParserWorker(env)
    /\ hpc2' = "waiting"
    /\ preview' = ProgressMarkup
    /\ last2' = ProgressMarkup
    /\ wpc2' = "loading"
    /\ toWorker2' = toWorker2 \o <<[type |-> <<"parse-", doc2.kind>>]>>
    /\ UNCHANGED <<doc, env, hpc, fi, fhtml, buffer, workerVars, toWorker, inbox,
                   errPending, events, emitted, sched, view, doc2, wi2, whtml2, inbox2,
                   errPending2, clobbered>>

\* The second worker loads its libraries.
WorkerLoad2 ==
    /\ wpc2 = "loading"
    /\ \/ /\ wpc2' = "ready"
          /\ UNCHANGED errPending2
       \/ /\ wpc2' = "failed"
          /\ \E em \in CrashMsgs : errPending2' = errPending2 \o <<em>>
    /\ UNCHANGED <<doc, env, hostVars, workerVars, toWorker, inbox, errPending, emitted,
                   view, doc2, hpc2, wi2, whtml2, toWorker2, inbox2, last2, clobbered>>

WorkerStep2(r) ==
    /\ wpc2' = r.pc
    /\ wi2' = r.i
    /\ whtml2' = r.html
    /\ inbox2' = inbox2 \o r.out

\* self.onmessage of the second worker takes the request.
WorkerOnMessage2 ==
    /\ wpc2 = "ready"
    /\ toWorker2 # <<>>
    /\ \E m \in LibMsgs : WorkerStep2(onmessage(Head(toWorker2).type, doc2, m))
    /\ toWorker2' = Tail(toWorker2)
    /\ UNCHANGED <<doc, env, hostVars, workerVars, toWorker, inbox, errPending, emitted,
                   view, doc2, hpc2, errPending2, last2, clobbered>>

\* parseXlsx of the second worker resumes after the 10 ms timer.
WorkerTimer2 ==
    /\ wpc2 = "sleep"
    /\ \E m \in LibMsgs : WorkerStep2(parseXlsxLoop(wi2, whtml2, doc2.units, m))
    /\ UNCHANGED <<doc, env, hostVars, workerVars, toWorker, inbox, errPending, emitted,
                   view, doc2, hpc2, toWorker2, errPending2, last2, clobbered>>

\* parsePptx of the second worker resumes after PptxParser.parse.
WorkerParsed2 ==
    /\ wpc2 = "parsing"
    /\ \E m \in LibMsgs : WorkerStep2(parsePptxParsed(doc2, m))
    /\ UNCHANGED <<doc, env, hostVars, workerVars, toWorker, inbox, errPending, emitted,
                   view, doc2, hpc2, toWorker2, errPending2, last2, clobbered>>

\* worker.onmessage of the second request handles one message.
HostOnMessage2 ==
    /\ inbox2 # <<>>
    /\ SecondWrites(workerOnmessage(Head(inbox2)))
    /\ inbox2' = Tail(inbox2)
    /\ UNCHANGED <<doc, env, hpc, fi, fhtml, buffer, workerVars, toWorker, inbox,
                   errPending, events, emitted, sched, view, doc2, hpc2, wpc2, wi2,
                   whtml2, toWorker2, errPending2>>

\* worker.onerror of the second request.
HostOnError2 ==
    /\ errPending2 # <<>>
    /\ SecondWrites(workerOnerror(Head(errPending2)))
    /\ errPending2' = <<>>
    /\ wpc2' = "terminated"
    /\ inbox2' = <<>>
    /\ toWorker2' = <<>>
    /\ UNCHANGED <<doc, env, hpc, fi, fhtml, buffer, workerVars, toWorker, inbox,
                   errPending, events, emitted, sched, view, doc2, hpc2, wi2, whtml2>>

\* Two documents, a browser with Worker support, no request made yet.
InitTwo ==
    /\ doc \in TwoDocs
    /\ doc2 \in TwoDocs
    /\ env = "worker"
    /\ FirstIdle
    /\ view = NoView
    /\ SecondIdle

NextTwo ==
    \/ ParseLargeFile
    \/ WorkerLoad
    \/ WorkerOnMessage
    \/ WorkerTimer
    \/ WorkerParsed
    \/ HostOnMessage
    \/ HostOnError
    \/ ParseLargeFile2
    \/ WorkerLoad2
    \/ WorkerOnMessage2
    \/ WorkerTimer2
    \/ WorkerParsed2
    \/ HostOnMessage2
    \/ HostOnError2

SpecTwo == InitTwo /\ [][NextTwo]_vars

\* C17: no progress, result or error message of one request changes what
\* the other request has shown in the preview.
C17_NoCrossRequestWrite == ~clobbered

====
